---- MODULE Spec2Model ----
(***************************************************************************)
(* Model of the resumable playlist executor of youtube_playlist_rearrange  *)
(* (src/main.py): the two persisted files, the analysis phase that writes  *)
(* them on a first run, and run_execution_phase, which walks the persisted *)
(* task list, creates playlists, inserts tracks and stops on a quota       *)
(* error.  A process invocation is main(); the remote service answers each *)
(* write call with success, a quota error or another HTTP error.           *)
(*                                                                         *)
(* Playlist titles and descriptions and the title/description of a video   *)
(* record are carried through the program unchanged and never tested by    *)
(* it; they are left out of the records below.                             *)
(*                                                                         *)
(* A successful create answers with a newly assigned, non-empty id.  An    *)
(* exception other than googleapiclient's HttpError is caught nowhere and  *)
(* ends the process without a save; such unplanned ends are not steps of   *)
(* Spec.                                                                   *)
(***************************************************************************)
EXTENDS Integers, Sequences, FiniteSets, TLC

\* ---- bounds ----
\* playlists in a planner answer
MaxGroupings == 2
\* tracks in a planner answer, over all its playlists
MaxTracks == 3
\* source playlists handed to the collector
MaxSources == 2
\* pages of one source playlist
MaxPages == 2
\* playlist items over all pages of all source playlists
MaxCollected == 4
\* ids handed to the metadata fetch
MaxIds == 101

\* ---- values ----
None == "None"
VideoIds == {"vidA"}
\* the ids the remote service assigns to new playlists, in order of creation
RemoteIds == <<"PL1", "PL2", "PL3", "PL4", "PL5">>
\* the indices a planner answer may hold: negative, first record, past the end
Positions == {0 - 1, 0, 1}
TrackStatuses == {"PENDING", "COMPLETED", "FAILED", "SKIPPED"}

SeqsUpTo(S, n) == UNION {[1..k -> S] : k \in 0..n}

\* what the cache can hold: no record, a record with a video id, a record
\* without one
VideoInfoLists == {<<>>} \cup {<<v>> : v \in VideoIds \cup {None}}

\* lists of g playlists, each a list of indices, with at most n indices in all
RECURSIVE PlansOf(_, _)
PlansOf(g, n) ==
  IF g = 0 THEN {<<>>}
  ELSE UNION {{Append(rest, l) : rest \in PlansOf(g - 1, n - Len(l))} :
                l \in SeqsUpTo(Positions, n)}

\* what the planner can answer
PlannerOutputs == UNION {PlansOf(g, MaxTracks) : g \in 0..MaxGroupings}

VARIABLES
  state_file,            \* STATE_FILE on disk: [exists, text]
  cache_file,            \* VIDEO_INFO_CACHE_FILE on disk: [exists, text]
  playlist_data,         \* in-memory Run State of the running process
  complete_videos_info,  \* in-memory video records of the running process
  pc,                    \* position of the running process, "stopped" if none
  gi,                    \* index of the playlist the for loop is at
  pending_tracks,        \* track indices collected at the head of the track loop
  ti,                    \* index into pending_tracks
  created,               \* playlists the remote service has created so far
  resp,                  \* last answer of the remote service in this process
  exit_code,             \* exit status of the last process, -1 before it ends
  ended,                 \* how the last process ended, "running" before it ends
  log,                   \* remote write calls issued by this process, in order
  okInsert,              \* history: successful insert calls per track, all runs
  okCreate,              \* history: successful create calls per playlist, all runs
  runStart,              \* history: Run State (and file text) as loaded by this process
  memAtQuota,            \* history: in-memory Run State when the previous process
                         \* ended by a quota exit
  coll,                  \* a run of fetch_all_playlist_track_ids (SpecCollect)
  fetch                  \* a run of fetch_video_details_in_batches (SpecFetch)

vars == <<state_file, cache_file, playlist_data, complete_videos_info, pc, gi,
          pending_tracks, ti, created, resp, exit_code, ended, log, okInsert,
          okCreate, runStart, memAtQuota, coll, fetch>>

\* ---- json.dump / json.load of the two snapshots ----
dump_id(v) == IF v = None THEN "null" ELSE v
load_id(v) == IF v = "null" THEN None ELSE v

\* variant: a FAILED track is written back as PENDING, to be retried
json_dump_retry(data) ==
  [g \in DOMAIN data |->
     <<data[g].status,
       [t \in DOMAIN data[g].tracks |->
          <<data[g].tracks[t].index,
            IF data[g].tracks[t].status = "FAILED" THEN "PENDING"
            ELSE data[g].tracks[t].status>>],
       dump_id(data[g].youtube_playlist_id)>>]

json_dump(data) ==
  [g \in DOMAIN data |->
     <<data[g].status,
       [t \in DOMAIN data[g].tracks |->
          <<data[g].tracks[t].index, data[g].tracks[t].status>>],
       dump_id(data[g].youtube_playlist_id)>>]

\* variant: the remote id is read under a wrong key and comes back as None
json_load_noid(text) ==
  [g \in DOMAIN text |->
     [status |-> text[g][1],
      tracks |-> [t \in DOMAIN text[g][2] |->
                    [index |-> text[g][2][t][1], status |-> text[g][2][t][2]]],
      youtube_playlist_id |-> None]]

json_load(text) ==
  [g \in DOMAIN text |->
     [status |-> text[g][1],
      tracks |-> [t \in DOMAIN text[g][2] |->
                    [index |-> text[g][2][t][1], status |-> text[g][2][t][2]]],
      youtube_playlist_id |-> load_id(text[g][3])]]

json_dump_videos(info) == [i \in DOMAIN info |-> dump_id(info[i])]
json_load_videos(text) == [i \in DOMAIN text |-> load_id(text[i])]

NoFile == [exists |-> FALSE, text |-> <<>>]
\* the text of a file that open(file_path, 'w') has emptied and json.dump has
\* not written yet: not a JSON document
EmptyText == <<<<"", <<>>, "">>>>
save_state(text) == [exists |-> TRUE, text |-> text]

\* ---- helpers of run_execution_phase ----
\* variant: a list lookup, where a negative index counts from the end
index_to_video_id_list(info, index) ==
  IF index >= 0 /\ index < Len(info) THEN info[index + 1]
  ELSE IF index < 0 /\ 0 - index <= Len(info) THEN info[Len(info) + index + 1]
  ELSE None

\* index_to_video_id.get(index): the dict has keys 0 .. len-1
index_to_video_id(info, index) ==
  IF index >= 0 /\ index < Len(info) THEN info[index + 1] ELSE None

\* variant: the pending tracks are taken last to first
RECURSIVE SelectIdx_reversed(_, _)
SelectIdx_reversed(tracks, n) ==
  IF n = 0 THEN <<>>
  ELSE IF tracks[n].status = "PENDING"
       THEN <<n>> \o SelectIdx_reversed(tracks, n - 1)
       ELSE SelectIdx_reversed(tracks, n - 1)

RECURSIVE SelectIdx(_, _)
SelectIdx(tracks, n) ==
  IF n = 0 THEN <<>>
  ELSE IF tracks[n].status = "PENDING"
       THEN Append(SelectIdx(tracks, n - 1), n)
       ELSE SelectIdx(tracks, n - 1)

\* variant: the filter on PENDING is lost, every track is taken
PendingTracks_all(playlist) == [t \in DOMAIN playlist.tracks |-> t]

\* pending_tracks = [t for t in playlist['tracks'] if t['status'] == 'PENDING']
PendingTracks(playlist) == SelectIdx(playlist.tracks, Len(playlist.tracks))

\* all(t['status'] != 'PENDING' for t in playlist['tracks'])
AllNonPending(playlist) ==
  \A t \in DOMAIN playlist.tracks : playlist.tracks[t].status # "PENDING"

\* variant: the playlist is marked COMPLETED along with the track
SetTrack_playlist(data, g, t, s) ==
  [data EXCEPT ![g].tracks[t].status = s, ![g].status = "COMPLETED"]

SetTrack(data, g, t, s) == [data EXCEPT ![g].tracks[t].status = s]

\* playlists with status, tracks and youtube_playlist_id added
Enrich(out) ==
  [g \in DOMAIN out |->
     [status |-> "PENDING",
      tracks |-> [t \in DOMAIN out[g] |-> [index |-> out[g][t], status |-> "PENDING"]],
      youtube_playlist_id |-> None]]

NoResp == [kind |-> "none", id |-> None]
NoSnap == [valid |-> FALSE, st |-> <<>>]
NoRun == [valid |-> FALSE, st |-> <<>>, text |-> <<>>]
LoadedRun == [valid |-> TRUE, st |-> json_load(state_file.text), text |-> state_file.text]

\* no run of the collector functions under way
CollIdle == [pc |-> "idle", sources |-> 0, src |-> 1, page |-> 0,
             all_track_ids |-> <<>>, video_ids_list |-> <<>>]
FetchIdle == [pc |-> "idle", video_ids |-> <<>>, pos |-> 0, requests |-> <<>>,
              responses |-> <<>>,
              complete_videos_info |-> <<>>]

InitExec ==
  /\ state_file = NoFile
  /\ cache_file = NoFile
  /\ playlist_data = <<>>
  /\ complete_videos_info = <<>>
  /\ pc = "stopped"
  /\ gi = 1
  /\ pending_tracks = <<>>
  /\ ti = 1
  /\ created = 0
  /\ resp = NoResp
  /\ exit_code = 0 - 1
  /\ ended = "running"
  /\ log = <<>>
  /\ okInsert = <<>>
  /\ okCreate = <<>>
  /\ runStart = NoRun
  /\ memAtQuota = NoSnap

Init == InitExec /\ coll = CollIdle /\ fetch = FetchIdle

\* the process ends: its memory is gone, the files stay
Exit(code) ==
  /\ pc' = "stopped"
  /\ exit_code' = code
  /\ playlist_data' = <<>>
  /\ complete_videos_info' = <<>>
  /\ gi' = 1
  /\ pending_tracks' = <<>>
  /\ ti' = 1

\* variant: the analysis phase is run by every process
FirstRun_always == TRUE

\* not os.path.exists(STATE_FILE)
FirstRun == ~state_file.exists

\* main(): a new process starts.  load_config ends it with sys.exit(1) when
\* config.json is missing; get_gemini_client ends it with exit() (no status:
\* the process's exit status is 0) when the client cannot be set up; otherwise
\* the path is picked by the state file's existence.
main ==
  /\ pc = "stopped"
  /\ resp' = NoResp
  /\ log' = <<>>
  /\ runStart' = NoRun
  /\ \/ /\ exit_code' = 1
        /\ ended' = "config"
        /\ UNCHANGED pc
     \/ /\ exit_code' = 0
        /\ ended' = "credentials"
        /\ UNCHANGED pc
     \/ /\ pc' = IF FirstRun THEN "analysis" ELSE "execution"
        /\ exit_code' = 0 - 1
        /\ ended' = "running"
  /\ UNCHANGED <<state_file, cache_file, playlist_data, complete_videos_info,
                 gi, pending_tracks, ti, created, okInsert, okCreate, memAtQuota>>
  /\ UNCHANGED <<coll, fetch>>

\* run_analysis_phase: collect, cache, plan, enrich, save
run_analysis_phase ==
  /\ pc = "analysis"
  /\ \E info \in VideoInfoLists :
       /\ cache_file' = save_state(json_dump_videos(info))
       /\ \/ \* the planner returns nothing usable: sys.exit(1)
             /\ Exit(1)
             /\ ended' = "planner"
             /\ UNCHANGED <<state_file, okInsert, okCreate>>
          \/ \E out \in PlannerOutputs :
               /\ state_file' = save_state(json_dump(Enrich(out)))
               /\ okInsert' = [g \in DOMAIN out |-> [t \in DOMAIN out[g] |-> 0]]
               /\ okCreate' = [g \in DOMAIN out |-> 0]
               /\ pc' = "execution"
               /\ UNCHANGED <<exit_code, ended, playlist_data, complete_videos_info,
                              gi, pending_tracks, ti>>
  /\ UNCHANGED <<created, resp, log, runStart, memAtQuota>>
  /\ UNCHANGED <<coll, fetch>>

\* variant: a missing cache sends the process back to the analysis phase
load_phase_recollect ==
  /\ pc = "execution"
  /\ IF state_file.exists /\ ~cache_file.exists
     THEN /\ pc' = "analysis"
          /\ UNCHANGED <<exit_code, ended, playlist_data, complete_videos_info, gi,
                         pending_tracks, ti, runStart, memAtQuota>>
     ELSE IF ~state_file.exists \/ Len(cache_file.text) = 0
     THEN /\ Exit(1)
          /\ ended' = "missing"
          /\ runStart' = IF state_file.exists THEN LoadedRun ELSE NoRun
          /\ memAtQuota' = NoSnap
     ELSE /\ playlist_data' = json_load(state_file.text)
          /\ complete_videos_info' = json_load_videos(cache_file.text)
          /\ runStart' = LoadedRun
          /\ gi' = 1
          /\ pc' = "playlist"
          /\ UNCHANGED <<exit_code, ended, pending_tracks, ti, memAtQuota>>
  /\ UNCHANGED <<state_file, cache_file, created, resp, log, okInsert, okCreate>>
  /\ UNCHANGED <<coll, fetch>>

\* run_execution_phase, up to the head of the for loop.  json.load of a state
\* file that is not a JSON document raises JSONDecodeError, which nothing
\* catches: the process dies with status 1.
load_phase ==
  /\ pc = "execution"
  /\ IF state_file.exists /\ state_file.text = EmptyText
     THEN /\ Exit(1)
          /\ ended' = "badjson"
          /\ runStart' = NoRun
          /\ memAtQuota' = NoSnap
     ELSE IF ~state_file.exists \/ ~cache_file.exists \/ Len(cache_file.text) = 0
     THEN \* not playlist_data or not complete_videos_info: sys.exit(1)
          /\ Exit(1)
          /\ ended' = "missing"
          /\ runStart' = IF state_file.exists THEN LoadedRun ELSE NoRun
          /\ memAtQuota' = NoSnap
     ELSE /\ playlist_data' = json_load(state_file.text)
          /\ complete_videos_info' = json_load_videos(cache_file.text)
          /\ runStart' = LoadedRun
          /\ gi' = 1
          /\ pc' = "playlist"
          /\ UNCHANGED <<exit_code, ended, pending_tracks, ti, memAtQuota>>
  /\ UNCHANGED <<state_file, cache_file, created, resp, log, okInsert, okCreate>>
  /\ UNCHANGED <<coll, fetch>>

\* ---- the remote service ----
\* answers to a write call: success (with the new playlist's id for a create),
\* HTTP 403 with 'quota' in its message, or any other HttpError
\* a create that succeeds answers with a newly assigned id
NewId == RemoteIds[IF created < Len(RemoteIds) THEN created + 1 ELSE Len(RemoteIds)]

CreateResponses ==
  {[kind |-> "ok", id |-> NewId],
   [kind |-> "quota", id |-> None], [kind |-> "error", id |-> None]}

InsertResponses ==
  {[kind |-> "ok", id |-> None],
   [kind |-> "quota", id |-> None], [kind |-> "error", id |-> None]}

CreateCall(g) == [kind |-> "create", g |-> g, t |-> 0]
InsertCall(g, t) == [kind |-> "insert", g |-> g, t |-> t]

Bump(n) == IF n < 2 THEN n + 1 ELSE n

\* variant: the process exits without writing the state file
save_and_exit_nosave(data) ==
  /\ UNCHANGED state_file
  /\ memAtQuota' = [valid |-> TRUE, st |-> data]
  /\ ended' = "quota"
  /\ Exit(0)

\* variant: the quota exit reports a failure status
save_and_exit_status1(data) ==
  /\ state_file' = save_state(json_dump(data))
  /\ memAtQuota' = [valid |-> TRUE, st |-> data]
  /\ ended' = "quota"
  /\ Exit(1)

\* save_and_exit(data): save_state(data, STATE_FILE); sys.exit(0)
save_and_exit(data) ==
  /\ state_file' = save_state(json_dump(data))
  /\ memAtQuota' = [valid |-> TRUE, st |-> data]
  /\ ended' = "quota"
  /\ Exit(0)

\* playlist.get('status') == 'COMPLETED'
IsCompleted(playlist) == playlist.status = "COMPLETED"

\* variant: the playlist is created whether or not it has an id
NeedsCreate_always(playlist) == TRUE

\* not playlist.get('youtube_playlist_id')
NeedsCreate(playlist) == playlist.youtube_playlist_id = None

\* head of "for playlist in playlist_data.get('playlists', [])", down to the
\* create call or the start of the track loop; after the last playlist the
\* final save_state and the normal return of main()
playlist_step ==
  /\ pc = "playlist"
  /\ IF gi > Len(playlist_data)
     THEN /\ state_file' = save_state(json_dump(playlist_data))
          /\ Exit(0)
          /\ ended' = "normal"
          /\ memAtQuota' = NoSnap
          /\ UNCHANGED log
     ELSE /\ UNCHANGED <<state_file, exit_code, ended, playlist_data, complete_videos_info,
                         memAtQuota>>
          /\ IF IsCompleted(playlist_data[gi])
             THEN /\ gi' = gi + 1
                  /\ UNCHANGED <<pc, pending_tracks, ti, log>>
             ELSE IF NeedsCreate(playlist_data[gi])
             THEN /\ pc' = "create_call"
                  /\ log' = Append(log, CreateCall(gi))
                  /\ UNCHANGED <<gi, pending_tracks, ti>>
             ELSE /\ pending_tracks' = PendingTracks(playlist_data[gi])
                  /\ ti' = 1
                  /\ pc' = "track"
                  /\ UNCHANGED <<gi, log>>
  /\ UNCHANGED <<cache_file, created, resp, okInsert, okCreate, runStart>>
  /\ UNCHANGED <<coll, fetch>>

\* variant: after a creation error the track loop is entered all the same
handle_create_fallthrough(r) ==
  IF r.kind = "ok"
  THEN /\ playlist_data' = [playlist_data EXCEPT ![gi].youtube_playlist_id = r.id]
       /\ okCreate' = [okCreate EXCEPT ![gi] = Bump(@)]
       /\ pending_tracks' = PendingTracks(playlist_data[gi])
       /\ ti' = 1
       /\ pc' = "track"
       /\ UNCHANGED <<state_file, exit_code, ended, complete_videos_info, gi, memAtQuota>>
  ELSE IF r.kind = "quota"
  THEN /\ save_and_exit(playlist_data)
       /\ UNCHANGED okCreate
  ELSE /\ pending_tracks' = PendingTracks(playlist_data[gi])
       /\ ti' = 1
       /\ pc' = "track"
       /\ UNCHANGED <<state_file, exit_code, ended, playlist_data, complete_videos_info,
                      gi, okCreate, memAtQuota>>

\* the try/except around create_playlist_on_youtube
handle_create(r) ==
  IF r.kind = "ok"
  THEN /\ playlist_data' = [playlist_data EXCEPT ![gi].youtube_playlist_id = r.id]
       /\ okCreate' = [okCreate EXCEPT ![gi] = Bump(@)]
       /\ pending_tracks' = PendingTracks(playlist_data[gi])
       /\ ti' = 1
       /\ pc' = "track"
       /\ UNCHANGED <<state_file, exit_code, ended, complete_videos_info, gi, memAtQuota>>
  ELSE IF r.kind = "quota"
  THEN /\ save_and_exit(playlist_data)
       /\ UNCHANGED okCreate
  ELSE /\ gi' = gi + 1
       /\ pc' = "playlist"
       /\ UNCHANGED <<state_file, exit_code, ended, playlist_data, complete_videos_info,
                      pending_tracks, ti, okCreate, memAtQuota>>

\* the create call returns or raises
create_return ==
  /\ pc = "create_call"
  /\ \E r \in CreateResponses :
       /\ resp' = r
       /\ created' = IF r.kind = "ok" /\ created < Len(RemoteIds) THEN created + 1 ELSE created
       /\ handle_create(r)
  /\ UNCHANGED <<cache_file, log, okInsert, runStart>>
  /\ UNCHANGED <<coll, fetch>>

\* head of "for track in pending_tracks", down to the insert call; after the
\* last pending track the completion check of the playlist
track_step ==
  /\ pc = "track"
  /\ IF ti > Len(pending_tracks)
     THEN /\ playlist_data' = IF AllNonPending(playlist_data[gi])
                              THEN [playlist_data EXCEPT ![gi].status = "COMPLETED"]
                              ELSE playlist_data
          /\ gi' = gi + 1
          /\ pc' = "playlist"
          /\ UNCHANGED <<ti, pending_tracks, log>>
     ELSE IF index_to_video_id(complete_videos_info,
                               playlist_data[gi].tracks[pending_tracks[ti]].index) = None
     THEN /\ playlist_data' = SetTrack(playlist_data, gi, pending_tracks[ti], "SKIPPED")
          /\ ti' = ti + 1
          /\ UNCHANGED <<pc, gi, pending_tracks, log>>
     ELSE /\ pc' = "insert_call"
          /\ log' = Append(log, InsertCall(gi, pending_tracks[ti]))
          /\ UNCHANGED <<playlist_data, gi, ti, pending_tracks>>
  /\ UNCHANGED <<state_file, cache_file, complete_videos_info, created, resp,
                 exit_code, ended, okInsert, okCreate, runStart, memAtQuota>>
  /\ UNCHANGED <<coll, fetch>>

\* variant: an error other than quota is not caught and ends the process
handle_insert_abort(r) ==
  IF r.kind = "ok"
  THEN /\ playlist_data' = SetTrack(playlist_data, gi, pending_tracks[ti], "COMPLETED")
       /\ okInsert' = [okInsert EXCEPT ![gi][pending_tracks[ti]] = Bump(@)]
       /\ ti' = ti + 1
       /\ pc' = "track"
       /\ UNCHANGED <<state_file, exit_code, ended, complete_videos_info, gi,
                      pending_tracks, memAtQuota>>
  ELSE IF r.kind = "quota"
  THEN /\ save_and_exit(playlist_data)
       /\ UNCHANGED okInsert
  ELSE /\ Exit(1)
       /\ ended' = "error"
       /\ UNCHANGED <<state_file, okInsert, memAtQuota>>

\* the try/except around add_video_to_playlist
handle_insert(r) ==
  IF r.kind = "ok"
  THEN /\ playlist_data' = SetTrack(playlist_data, gi, pending_tracks[ti], "COMPLETED")
       /\ okInsert' = [okInsert EXCEPT ![gi][pending_tracks[ti]] = Bump(@)]
       /\ ti' = ti + 1
       /\ pc' = "track"
       /\ UNCHANGED <<state_file, exit_code, ended, complete_videos_info, gi,
                      pending_tracks, memAtQuota>>
  ELSE IF r.kind = "quota"
  THEN /\ save_and_exit(playlist_data)
       /\ UNCHANGED okInsert
  ELSE /\ playlist_data' = SetTrack(playlist_data, gi, pending_tracks[ti], "FAILED")
       /\ ti' = ti + 1
       /\ pc' = "track"
       /\ UNCHANGED <<state_file, exit_code, ended, complete_videos_info, gi,
                      pending_tracks, okInsert, memAtQuota>>

\* the insert call returns or raises
insert_return ==
  /\ pc = "insert_call"
  /\ \E r \in InsertResponses : resp' = r /\ handle_insert(r)
  /\ UNCHANGED <<cache_file, created, log, okCreate, runStart>>
  /\ UNCHANGED <<coll, fetch>>

Next ==
  \/ main
  \/ run_analysis_phase
  \/ load_phase
  \/ playlist_step
  \/ create_return
  \/ track_step
  \/ insert_return

Spec == Init /\ [][Next]_vars

\* ---- views used by the properties ----
ExecPcs == {"playlist", "create_call", "track", "insert_call"}
CallPcs == {"create_call", "insert_call"}

\* the Run State as it stands: the running executor's memory, otherwise the file
CurState ==
  IF pc \in ExecPcs THEN playlist_data
  ELSE IF state_file.exists THEN json_load(state_file.text) ELSE <<>>

StatusesOf(data) ==
  UNION {{data[g].tracks[t].status : t \in DOMAIN data[g].tracks} : g \in DOMAIN data}

\* C1: completed work is never repeated: an insert call is in flight only for
\* a track that is PENDING, a create call only for a playlist without remote
\* id, and over all runs no track has more than one successful insert and no
\* playlist more than one successful create.
C1_NoRepeatedWork ==
  /\ pc = "insert_call" =>
       playlist_data[gi].tracks[pending_tracks[ti]].status = "PENDING"
  /\ pc = "create_call" => playlist_data[gi].youtube_playlist_id = None
  /\ \A g \in DOMAIN okCreate : okCreate[g] <= 1
  /\ \A g \in DOMAIN okInsert : \A t \in DOMAIN okInsert[g] : okInsert[g][t] <= 1

\* a resumed run, started with a track already COMPLETED, issues an insert
C1_Witness ==
  /\ pc = "insert_call"
  /\ runStart.valid
  /\ "COMPLETED" \in StatusesOf(runStart.st)
  /\ \E g \in DOMAIN okInsert : \E t \in DOMAIN okInsert[g] : okInsert[g][t] = 1

\* C2: after a quota interruption, the Run State the next process loads is
\* exactly the in-memory Run State of the interrupted process at the moment
\* of the interruption (statuses and remote ids), the rest still PENDING.
C2_Resumability ==
  (pc # "stopped" /\ memAtQuota.valid /\ runStart.valid) =>
     /\ runStart.st = memAtQuota.st
     /\ (pc = "playlist" /\ gi = 1) => playlist_data = memAtQuota.st

\* the reloaded state holds a COMPLETED, a FAILED and a PENDING track and a remote id
C2_Witness ==
  /\ pc = "playlist" /\ gi = 1
  /\ memAtQuota.valid /\ runStart.valid
  /\ {"COMPLETED", "FAILED", "PENDING"} \subseteq StatusesOf(playlist_data)
  /\ \E g \in DOMAIN playlist_data : playlist_data[g].youtube_playlist_id # None

\* C3: a quota answer to a create or insert call makes the process write the
\* whole in-memory Run State to the state file at once, end with status 0
\* without a further call, and leave the task it was on as it was (track
\* PENDING; playlist PENDING with remote id null).
C3_QuotaStops ==
  [][(pc \in CallPcs /\ resp'.kind = "quota") =>
       /\ state_file' = [exists |-> TRUE, text |-> json_dump(playlist_data)]
       /\ pc' = "stopped"
       /\ exit_code' = 0
       /\ log' = log
       /\ pc = "insert_call" =>
            json_load(state_file'.text)[gi].tracks[pending_tracks[ti]].status = "PENDING"
       /\ pc = "create_call" =>
            /\ json_load(state_file'.text)[gi].youtube_playlist_id = None
            /\ json_load(state_file'.text)[gi].status = "PENDING"]_vars

\* a process stopped by a quota answer to an insert, after an earlier success
C3_Witness ==
  /\ pc = "stopped"
  /\ resp.kind = "quota"
  /\ exit_code = 0
  /\ Len(log) >= 2
  /\ log[Len(log)].kind = "insert"
  /\ "COMPLETED" \in StatusesOf(json_load(state_file.text))

AllCompleted(data) == \A g \in DOMAIN data : data[g].status = "COMPLETED"
NoPendingTrack(data) == \A g \in DOMAIN data : AllNonPending(data[g])

\* the run so far has issued no remote call and left the Run State as loaded
RunIsNoOp ==
  /\ log = <<>>
  /\ state_file.text = runStart.text
  /\ pc \in ExecPcs => playlist_data = runStart.st

\* C4 as stated: a run started on a Run State without a PENDING track issues
\* no remote call and leaves the Run State unchanged.
C4_NoPendingTrackNoOp == (runStart.valid /\ NoPendingTrack(runStart.st)) => RunIsNoOp

\* C4 (amended): a run started on a Run State in which every playlist is
\* COMPLETED issues no remote call and leaves the Run State, in memory and on
\* file, unchanged; so does every run after it.
C4_Idempotent == (runStart.valid /\ AllCompleted(runStart.st)) => RunIsNoOp

\* a run on a non-empty, fully COMPLETED Run State has gone through and ended
C4_Witness ==
  /\ pc = "stopped" /\ exit_code = 0
  /\ runStart.valid
  /\ Len(runStart.st) = MaxGroupings
  /\ AllCompleted(runStart.st)
  /\ \E g \in DOMAIN runStart.st : runStart.st[g].tracks # <<>>
  /\ log = <<>>

\* C5: whenever a remote call is issued, the state file holds the in-memory
\* Run State (the state is saved after each creation and each insert attempt).
C5_PersistedAtCall == pc \in CallPcs => state_file.text = json_dump(playlist_data)

CompletedHasNoPending(data) ==
  \A g \in DOMAIN data : data[g].status = "COMPLETED" => AllNonPending(data[g])

C7_StatusMonotone ==
  [][state_file.exists =>
       /\ DOMAIN CurState' = DOMAIN CurState
       /\ \A g \in DOMAIN CurState :
            /\ CurState[g].status = "COMPLETED" => CurState'[g].status = "COMPLETED"
            /\ DOMAIN CurState'[g].tracks = DOMAIN CurState[g].tracks
            /\ \A t \in DOMAIN CurState[g].tracks :
                 \/ CurState'[g].tracks[t].status = CurState[g].tracks[t].status
                 \/ /\ CurState[g].tracks[t].status = "PENDING"
                    /\ CurState'[g].tracks[t].status \in {"COMPLETED", "FAILED", "SKIPPED"}]_vars

\* a later process runs on a state holding a FAILED track and a COMPLETED playlist
C7_Witness ==
  /\ pc = "insert_call"
  /\ runStart.valid
  /\ "FAILED" \in StatusesOf(runStart.st)
  /\ \E g \in DOMAIN runStart.st : runStart.st[g].status = "COMPLETED"

NoCallTwice == \A i, j \in DOMAIN log : i # j => log[i] # log[j]

Resolves(info, pos) == pos \in 0 .. (Len(info) - 1) /\ info[pos + 1] \in VideoIds

\* C9: when the executor comes to a PENDING track whose position does not
\* resolve (out of range, negative, record without id) it marks it SKIPPED
\* and issues no insert; a track becomes SKIPPED only so; an insert is only
\* ever issued for a position that resolves, hence never for a SKIPPED track,
\* which stays SKIPPED in every later run.
C9_SkipUnresolved ==
  /\ [](\A i \in DOMAIN log :
          (pc \in ExecPcs /\ log[i].kind = "insert") =>
            /\ Resolves(complete_videos_info, playlist_data[log[i].g].tracks[log[i].t].index)
            /\ playlist_data[log[i].g].tracks[log[i].t].status # "SKIPPED")
  /\ [][(pc = "track" /\ ti <= Len(pending_tracks)
           /\ ~Resolves(complete_videos_info, playlist_data[gi].tracks[pending_tracks[ti]].index)) =>
          /\ playlist_data'[gi].tracks[pending_tracks[ti]].status = "SKIPPED"
          /\ log' = log /\ pc' = "track" /\ ti' = ti + 1]_vars
  /\ [][\A g \in DOMAIN CurState \cap DOMAIN CurState' :
          \A t \in DOMAIN CurState[g].tracks \cap DOMAIN CurState'[g].tracks :
            /\ CurState[g].tracks[t].status = "SKIPPED" =>
                 CurState'[g].tracks[t].status = "SKIPPED"
            /\ (CurState[g].tracks[t].status # "SKIPPED"
                  /\ CurState'[g].tracks[t].status = "SKIPPED") =>
                 /\ pc = "track" /\ g = gi
                 /\ ~Resolves(complete_videos_info, CurState[g].tracks[t].index)]_vars

\* a resumed run over a state with a track SKIPPED for a negative position
\* issues an insert for another track
C9_Witness ==
  /\ pc = "insert_call"
  /\ runStart.valid
  /\ \E g \in DOMAIN runStart.st : \E t \in DOMAIN runStart.st[g].tracks :
       /\ runStart.st[g].tracks[t].status = "SKIPPED"
       /\ runStart.st[g].tracks[t].index < 0

\* C10: a playlist's remote id changes only from null to the id returned by a
\* successful create call for that playlist, and never afterwards, in this
\* run or a later one.
C10_RemoteIdSetOnce ==
  [][\A g \in DOMAIN CurState \cap DOMAIN CurState' :
       CurState'[g].youtube_playlist_id # CurState[g].youtube_playlist_id =>
         /\ CurState[g].youtube_playlist_id = None
         /\ pc = "create_call" /\ g = gi
         /\ resp'.kind = "ok"
         /\ CurState'[g].youtube_playlist_id = resp'.id]_vars

\* a resumed run finds a remote id set and is creating the next playlist
C10_Witness ==
  /\ pc = "create_call"
  /\ gi = 2
  /\ runStart.valid
  /\ runStart.st[1].youtube_playlist_id # None
  /\ runStart.st[1].status = "PENDING"

remove_cache_file ==
  /\ pc = "stopped"
  /\ state_file.exists /\ cache_file.exists
  /\ cache_file' = NoFile
  /\ UNCHANGED <<state_file, playlist_data, complete_videos_info, pc, gi,
                 pending_tracks, ti, created, resp, exit_code, ended, log, okInsert,
                 okCreate, runStart, memAtQuota, coll, fetch>>

\* the state file is deleted after main() has seen it and before
\* run_execution_phase opens it (here: while no playlist has been created)
remove_state_file ==
  /\ pc = "execution"
  /\ state_file.exists
  /\ created = 0
  /\ state_file' = NoFile
  /\ UNCHANGED <<cache_file, playlist_data, complete_videos_info, pc, gi,
                 pending_tracks, ti, created, resp, exit_code, ended, log, okInsert,
                 okCreate, runStart, memAtQuota, coll, fetch>>

NextEnv ==
  \/ main
  \/ run_analysis_phase
  \/ load_phase
  \/ playlist_step
  \/ create_return
  \/ track_step
  \/ insert_return
  \/ remove_cache_file
  \/ remove_state_file

SpecEnv == Init /\ [][NextEnv]_vars

\* C12: run_execution_phase started with the state file or the cache file
\* missing ends the process at once with a non-zero status, before any remote
\* write, without writing either file and without entering the analysis phase.
C12_MissingSnapshotAborts ==
  [][(pc = "execution" /\ pc' # "execution"
        /\ (~state_file.exists \/ ~cache_file.exists)) =>
       /\ pc' = "stopped"
       /\ exit_code' # 0
       /\ ended' = "missing"
       /\ log' = <<>>
       /\ state_file' = state_file
       /\ cache_file' = cache_file]_vars

\* a resumed process has aborted for a missing cache next to a state file
\* that holds work done
C12_Witness ==
  /\ pc = "stopped"
  /\ ended = "missing"
  /\ exit_code = 1
  /\ state_file.exists /\ ~cache_file.exists
  /\ "COMPLETED" \in StatusesOf(json_load(state_file.text))

\* C13: a process ended by a fatal startup error (no configuration file, no
\* credentials for the generative-model client, a missing snapshot on resume, an
\* empty or failed planner response) has a non-zero exit status, and status 0
\* is that of normal completion and of the quota interruption only.
C13_FatalExitsNonZero ==
  pc = "stopped" =>
    /\ ended \in {"config", "credentials", "missing", "planner"} => exit_code # 0
    /\ exit_code = 0 => ended \in {"normal", "quota"}

\* C14: the analysis phase (collector and planner) runs only in a process that
\* found no state file at startup; once the state file exists it stays, and no
\* later process enters the analysis phase, whatever statuses the file holds;
\* a planner failure ends the process with no state file and no grouping.
C14_AnalysisOnlyOnFirstRun ==
  /\ [](pc = "analysis" => ~state_file.exists)
  /\ [][state_file.exists => (state_file'.exists /\ pc' # "analysis")]_vars
  /\ [][(pc = "analysis" /\ ended' = "planner") =>
          /\ ~state_file'.exists
          /\ playlist_data' = <<>>
          /\ pc' = "stopped"]_vars

\* a later process, started on a state file that holds a FAILED track, is in
\* the execution phase
C14_Witness ==
  /\ pc = "execution"
  /\ state_file.exists
  /\ state_file.text # EmptyText
  /\ "FAILED" \in StatusesOf(json_load(state_file.text))

\* ---- save_state step by step ----
\* The final save_state of run_execution_phase taken in its two steps:
\* open(file_path, 'w') empties the file, json.dump then writes the text.
save_open ==
  /\ pc = "playlist"
  /\ gi > Len(playlist_data)
  /\ state_file' = [exists |-> TRUE, text |-> EmptyText]
  /\ pc' = "saving"
  /\ UNCHANGED <<cache_file, playlist_data, complete_videos_info, gi,
                 pending_tracks, ti, created, resp, exit_code, ended, log, okInsert,
                 okCreate, runStart, memAtQuota, coll, fetch>>

save_write ==
  /\ pc = "saving"
  /\ state_file' = save_state(json_dump(playlist_data))
  /\ Exit(0)
  /\ ended' = "normal"
  /\ memAtQuota' = NoSnap
  /\ UNCHANGED <<cache_file, created, resp, log, okInsert, okCreate, runStart,
                 coll, fetch>>

\* the process is terminated between the two steps
kill ==
  /\ pc = "saving"
  /\ Exit(137)
  /\ ended' = "killed"
  /\ memAtQuota' = NoSnap
  /\ UNCHANGED <<state_file, cache_file, created, resp, log, okInsert, okCreate,
                 runStart, coll, fetch>>

\* the playlist loop without its atomic final save
playlist_loop ==
  /\ playlist_step
  /\ gi <= Len(playlist_data)

NextSave ==
  \/ main
  \/ run_analysis_phase
  \/ load_phase
  \/ playlist_loop
  \/ create_return
  \/ track_step
  \/ insert_return
  \/ save_open
  \/ save_write
  \/ kill

SpecSave == Init /\ [][NextSave]_vars

\* C15: at every point of a save, a process termination between its steps
\* included, the state file holds the complete previous snapshot or the
\* complete new one; it is never empty.
C15_SaveNeverTruncates ==
  state_file.exists =>
    /\ state_file.text # EmptyText
    /\ pc = "saving" => state_file.text \in {runStart.text, json_dump(playlist_data)}

\* ---- the collector: fetch_all_playlist_track_ids and list() ----
\* video ids the source playlists can hold
CollIds == {"a", "b", "c"}

\* the variables of the phases, which the collector and the metadata fetch
\* leave alone
phaseVars == <<state_file, cache_file, playlist_data, complete_videos_info, pc, gi,
               pending_tracks, ti, created, resp, exit_code, ended, log, okInsert,
               okCreate, runStart, memAtQuota>>

Range(s) == {s[i] : i \in DOMAIN s}

\* the lists that hold each member of S once
Orders(S) == {s \in [1..Cardinality(S) -> S] : Range(s) = S}

\* variant: the ids are listed as collected
list_set_all(all_track_ids) == {all_track_ids}

\* list(set(all_track_ids)): a set of str iterates in the order of its hash
\* table, which depends on the hash seed of the process and not on the order
\* of insertion; any order can come out
list_set(all_track_ids) == Orders(Range(all_track_ids))

\* fetch_all_playlist_track_ids is entered with 0..MaxSources playlist ids
InitCollect ==
  /\ InitExec
  /\ fetch = FetchIdle
  /\ \E n \in 0..MaxSources :
       coll = [CollIdle EXCEPT !.pc = "page", !.sources = n]

\* one pass of the while loop: a page is requested and answered, its items are
\* appended, and the loop goes on while the answer has a nextPageToken
collect_page ==
  /\ coll.pc = "page"
  /\ coll.src <= coll.sources
  /\ \E items \in SeqsUpTo(CollIds, MaxCollected - Len(coll.all_track_ids)),
        next_token \in BOOLEAN :
       /\ next_token => coll.page + 1 < MaxPages
       /\ coll' = [coll EXCEPT
                     !.all_track_ids = @ \o items,
                     !.page = IF next_token THEN @ + 1 ELSE 0,
                     !.src = IF next_token THEN @ ELSE @ + 1]
  /\ UNCHANGED phaseVars
  /\ UNCHANGED fetch

\* after the last playlist: set(all_track_ids) is returned and
\* run_analysis_phase makes video_ids_list of it
collect_return ==
  /\ coll.pc = "page"
  /\ coll.src > coll.sources
  /\ \E l \in list_set(coll.all_track_ids) :
       coll' = [coll EXCEPT !.pc = "done", !.video_ids_list = l]
  /\ UNCHANGED phaseVars
  /\ UNCHANGED fetch

NextCollect ==
  \/ collect_page
  \/ collect_return

SpecCollect == InitCollect /\ [][NextCollect]_vars

\* the ids of s in the order of their first occurrence
RECURSIVE FirstSeen(_)
FirstSeen(s) ==
  IF s = <<>> THEN <<>>
  ELSE LET front == FirstSeen(SubSeq(s, 1, Len(s) - 1))
           last == s[Len(s)]
       IN IF last \in Range(front) THEN front ELSE Append(front, last)

BATCH_SIZE == 50

Min(a, b) == IF a < b THEN a ELSE b

\* variant: a batch is one id short
islice_short(video_ids, pos) ==
  SubSeq(video_ids, pos + 1, Min(pos + BATCH_SIZE - 1, Len(video_ids)))

\* list(islice(id_iterator, BATCH_SIZE)) when the iterator has yielded pos ids
islice(video_ids, pos) ==
  SubSeq(video_ids, pos + 1, Min(pos + BATCH_SIZE, Len(video_ids)))

\* the items of a response to a request for batch: the service resolves every
\* id, all but the first, all but the last, or none
Answers(batch) ==
  {batch, SubSeq(batch, 2, Len(batch)), SubSeq(batch, 1, Len(batch) - 1), <<>>}

\* fetch_video_details_in_batches is entered with a list of 0..MaxIds ids,
\* all different: the ids are written 1, 2, ...
InitFetch ==
  /\ InitExec
  /\ coll = CollIdle
  /\ \E n \in 0..MaxIds :
       fetch = [FetchIdle EXCEPT !.pc = "batch", !.video_ids = [i \in 1..n |-> i]]

\* one pass of the while loop with a batch that is not empty
fetch_batch ==
  /\ fetch.pc = "batch"
  /\ LET batch_of_ids == islice(fetch.video_ids, fetch.pos)
     IN /\ batch_of_ids # <<>>
        /\ \E videos_info \in Answers(batch_of_ids) :
             fetch' = [fetch EXCEPT
                         !.pos = @ + Len(batch_of_ids),
                         !.requests = Append(@, batch_of_ids),
                         !.responses = Append(@, videos_info),
                         !.complete_videos_info = @ \o videos_info]
  /\ UNCHANGED phaseVars
  /\ UNCHANGED coll

\* the batch is empty: break and return
fetch_return ==
  /\ fetch.pc = "batch"
  /\ islice(fetch.video_ids, fetch.pos) = <<>>
  /\ fetch' = [fetch EXCEPT !.pc = "done"]
  /\ UNCHANGED phaseVars
  /\ UNCHANGED coll

NextFetch ==
  \/ fetch_batch
  \/ fetch_return

SpecFetch == InitFetch /\ [][NextFetch]_vars

CeilDiv(n, d) == (n + d - 1) \div d

RECURSIVE Concat(_)
Concat(ss) == IF ss = <<>> THEN <<>> ELSE Concat(SubSeq(ss, 1, Len(ss) - 1)) \o ss[Len(ss)]

\* where the input list holds id
PosIn(id) == CHOOSE i \in DOMAIN fetch.video_ids : fetch.video_ids[i] = id

\* the ids some response holds
Resolved == UNION {Range(fetch.responses[k]) : k \in DOMAIN fetch.responses}

\* C17: for a list of N ids the fetch issues ceil(N/50) requests, request k
\* carrying ids 50(k-1)+1 .. min(50k, N) of the input; it returns the
\* responses concatenated in batch order, which is the input without the ids
\* not resolved; and position p of the executor's lookup is record p of this
\* output.
C17_BatchFetch ==
  fetch.pc = "done" =>
    LET N == Len(fetch.video_ids)
        out == fetch.complete_videos_info
    IN /\ Len(fetch.requests) = CeilDiv(N, BATCH_SIZE)
       /\ \A k \in DOMAIN fetch.requests :
            /\ Len(fetch.requests[k]) \in 1..BATCH_SIZE
            /\ fetch.requests[k] =
                 SubSeq(fetch.video_ids, BATCH_SIZE * (k - 1) + 1, Min(BATCH_SIZE * k, N))
       /\ out = Concat(fetch.responses)
       /\ Range(out) = Resolved
       /\ \A i \in 1..(Len(out) - 1) : PosIn(out[i]) < PosIn(out[i + 1])
       /\ \A p \in 0..(Len(out) - 1) : index_to_video_id(out, p) = out[p + 1]

\* three batches were requested for 101 ids, the service left out an id of the
\* first batch, and a position now names another id than in the input list
C17_Witness ==
  /\ fetch.pc = "done"
  /\ Len(fetch.video_ids) = 2 * BATCH_SIZE + 1
  /\ Len(fetch.requests) = 3
  /\ Len(fetch.responses[1]) = BATCH_SIZE - 1
  /\ Len(fetch.complete_videos_info) > BATCH_SIZE
  /\ index_to_video_id(fetch.complete_videos_info, BATCH_SIZE) # fetch.video_ids[BATCH_SIZE + 1]

\* the calls of the run were issued playlist by playlist in stored order, the
\* create call of a playlist before its inserts, the inserts in track order
LogOrdered ==
  \A i, j \in DOMAIN log :
    i < j => \/ log[i].g < log[j].g
             \/ log[i].g = log[j].g /\ log[i].t < log[j].t

\* the call was answered with success
Succeeded(call) ==
  IF call.kind = "create" THEN okCreate[call.g] >= 1 ELSE okInsert[call.g][call.t] >= 1

\* the process was a first run (nothing done when the executor loaded the
\* state), was stopped by a quota answer to an insert, and every call before
\* that one succeeded
QuotaOnFirstRun ==
  /\ pc = "stopped"
  /\ ended = "quota"
  /\ runStart.valid
  /\ runStart.st = Enrich([g \in DOMAIN runStart.st |->
                             [t \in DOMAIN runStart.st[g].tracks |->
                                runStart.st[g].tracks[t].index]])
  /\ log # <<>>
  /\ log[Len(log)].kind = "insert"
  /\ \A i \in 1..(Len(log) - 1) : Succeeded(log[i])

\* the persisted state around the interrupted insert: playlists before it
\* COMPLETED, playlists after it untouched, the tracks from it on PENDING, the
\* tracks before it in the set done
QuotaShape(done) ==
  LET st == json_load(state_file.text)
      k == log[Len(log)].g
      tq == log[Len(log)].t
  IN /\ \A g \in DOMAIN st : g < k => st[g].status = "COMPLETED"
     /\ st[k].status = "PENDING"
     /\ \A t \in DOMAIN st[k].tracks :
          /\ t < tq => st[k].tracks[t].status \in done
          /\ t >= tq => st[k].tracks[t].status = "PENDING"
     /\ \A g \in DOMAIN st :
          g > k => /\ st[g].status = "PENDING"
                   /\ st[g].youtube_playlist_id = None
                   /\ \A t \in DOMAIN st[g].tracks : st[g].tracks[t].status = "PENDING"

\* C18 as stated: calls are issued in stored order, and a first run stopped by
\* a quota answer to an insert in playlist k after successes only has
\* persisted the playlists before k COMPLETED, playlist k with its tracks
\* before the interrupted one COMPLETED and the rest PENDING, and the
\* playlists after k untouched.
C18_QuotaPrefixCompleted ==
  /\ LogOrdered
  /\ QuotaOnFirstRun => QuotaShape({"COMPLETED"})

\* C18 as the code has it: the same, with the tracks of playlist k before the
\* interrupted one COMPLETED or, where the position named no video id, SKIPPED.
C18_QuotaPrefixDone ==
  /\ LogOrdered
  /\ QuotaOnFirstRun => QuotaShape({"COMPLETED", "SKIPPED"})

\* a first run was stopped in its second playlist, on the second track of it,
\* after three successful calls
C18_Witness ==
  /\ QuotaOnFirstRun
  /\ log[Len(log)].g = 2
  /\ log[Len(log)].t = 2
  /\ Len(log) = 4

\* C20: the executor takes the fatal path for a missing state or cache file
\* only when one of the two files does not exist; after a first run that wrote
\* both, with no video record or no playlist in them as well, it goes on to
\* the playlists.
C20_BothSnapshotsSuffice ==
  (pc = "stopped" /\ ended = "missing") => ~(state_file.exists /\ cache_file.exists)

\* ---- the program under fair scheduling ----
\* a process that can take a step takes one, and a stopped program is started
\* again
SpecFair == Init /\ [][Next]_vars /\ WF_vars(Next)

RECURSIVE SumSeq(_)
SumSeq(s) == IF s = <<>> THEN 0 ELSE SumSeq(SubSeq(s, 1, Len(s) - 1)) + s[Len(s)]

\* the PENDING tracks of a Run State
PendingCount(data) == SumSeq([g \in DOMAIN data |-> Len(PendingTracks(data[g]))])

\* each call of the run is the one create call of its playlist or the one
\* insert call of a track that was PENDING when the run loaded the state
CallsWithinBudget ==
  /\ NoCallTwice
  /\ pc \in ExecPcs =>
       \A i \in DOMAIN log :
         log[i].kind = "insert" =>
           runStart.st[log[i].g].tracks[log[i].t].status = "PENDING"

\* the state in which a process found no configuration or no credentials, a
\* call was answered with a quota error, or a create call with another error
BadAnswer ==
  \/ pc = "stopped" /\ ended \in {"config", "credentials"}
  \/ resp.kind = "quota"
  \/ /\ resp.kind = "error"
     /\ pc = "playlist"
     /\ log # <<>>
     /\ log[Len(log)].kind = "create"

\* every playlist of the persisted Run State is COMPLETED and the process, if
\* one is running, has made no call
AllDone ==
  state_file.exists =>
    /\ AllCompleted(json_load(state_file.text))
    /\ log = <<>>

\* C19: a run issues at most one create call per playlist and one insert call
\* per track that was PENDING, and ends; the number of PENDING tracks in the
\* state file never grows; and if from some point on no call is answered with
\* a quota error and no create call with an error, then from some point on
\* every playlist of the state file is COMPLETED and no process makes a call.
C19_TerminatesAndCompletes ==
  /\ []CallsWithinBudget
  /\ (pc \in ExecPcs) ~> (pc = "stopped")
  /\ [][(state_file.exists /\ state_file'.exists) =>
          PendingCount(json_load(state_file'.text)) <= PendingCount(json_load(state_file.text))]_vars
  /\ <>[](~BadAnswer) => <>[]AllDone

====
